---- MODULE Spec2Model ----
(***************************************************************************)
(* ts-guardian: the guard evaluator (mainGuard), the guard factory         *)
(* (createGuard) and the combinators (or, and, orArrayOf, orRecordOf,      *)
(* orLiterally, orInstanceOf) of src/src/index.tsx, lines 1-272.           *)
(*                                                                         *)
(* A JavaScript value is a record whose field k names its kind.  A type    *)
(* definition is itself a JavaScript value (a string, a function, an array *)
(* or an object), so definitions and tested values share one universe.     *)
(* A string is kept as the sequence of its tokens, the suffixes "[]" and   *)
(* "?" being tokens of their own, so that endsWith and slice are computed. *)
(* Arrays the engine itself allocates (the OR-set of a guard, an           *)
(* intersection list) live in the heap `arrays` and are referred to by     *)
(* index, so that copying and sharing are visible.                         *)
(***************************************************************************)
EXTENDS Integers, Sequences, FiniteSets, TLC

VARIABLES arrays, guards, made, last

vars == <<arrays, guards, made, last>>

\* ------------------------------------------------------------------ bounds
MaxGuards == 2
MaxStack == 12

\* ------------------------------------------------------- JavaScript values
Undefined == [k |-> "undefined"]
Null == [k |-> "null"]
Bool(b) == [k |-> "boolean", b |-> b]
Num(n) == [k |-> "number", n |-> n]
BigInt(n) == [k |-> "bigint", n |-> n]
\* the number NaN
NaN == [k |-> "number", nan |-> TRUE]
Str(s) == [k |-> "string", s |-> s]
Sym(i) == [k |-> "symbol", i |-> i]
\* an arrow function written by the caller: f names what calling it does
Fn(f) == [k |-> "function", f |-> f]
\* a constructor (String, Date, Object, a class)
Ctor(c) == [k |-> "ctor", c |-> c]
\* a guard built by createGuard, by its index in `guards`
GuardRef(g) == [k |-> "guard", g |-> g]
\* an array literal
Arr(e) == [k |-> "array", e |-> e]
\* an array allocated by the engine, by its index in `arrays`
ARef(a) == [k |-> "aref", a |-> a]
\* an object: p is the sequence of its own <<key, value>> properties in
\* insertion order, c the constructor it was made by
Obj(p) == [k |-> "object", p |-> p, c |-> "Object"]
New(c) == [k |-> "object", p |-> <<>>, c |-> c]
\* the value of an accessor property whose getter throws
Throws == [k |-> "throws"]

T == "true"
F == "false"
X == "throw"

Truthy(b) == IF b THEN T ELSE F

typeOf(v) ==
  CASE v.k \in {"null", "array", "aref", "object"} -> "object"
    [] v.k \in {"function", "ctor", "guard"} -> "function"
    [] OTHER -> v.k

isArray(v) == v.k \in {"array", "aref"}

\* the elements of an array value
ArrElems(t) == IF t.k = "aref" THEN arrays[t.a] ELSE t.e

\* es[i] of JavaScript (0-based i): undefined past the end
Elem(es, i) == IF i + 1 <= Len(es) THEN es[i + 1] ELSE Undefined

IndexKeys == <<"0", "1", "2", "3">>

RECURSIVE lookup(_, _, _)
lookup(p, key, i) ==
  IF i > Len(p) THEN Undefined
  ELSE IF p[i][1] = key THEN p[i][2]
  ELSE lookup(p, key, i + 1)

\* value[key] for an object or array value (Throws when the getter throws)
Get(value, key) ==
  IF value.k = "object" THEN lookup(value.p, key, 1)
  ELSE IF isArray(value) THEN
    IF key = "length" THEN Num(Len(ArrElems(value)))
    ELSE IF \E i \in 1..Len(IndexKeys) : IndexKeys[i] = key
      THEN Elem(ArrElems(value), (CHOOSE i \in 1..Len(IndexKeys) : IndexKeys[i] = key) - 1)
      ELSE Undefined
  ELSE Undefined

\* Object.keys(t)
ObjectKeys(t) ==
  IF t.k = "object" THEN [i \in 1..Len(t.p) |-> t.p[i][1]]
  ELSE IF isArray(t) THEN [i \in 1..Len(ArrElems(t)) |-> IndexKeys[i]]
  ELSE <<>>

\* Object.values(value)
ObjectValues(value) ==
  IF value.k = "object" THEN [i \in 1..Len(value.p) |-> value.p[i][2]]
  ELSE IF isArray(value) THEN ArrElems(value)
  ELSE <<>>

\* the constructors on the prototype chain of a value (empty for a primitive)
ProtoChain(v) ==
  CASE v.k = "object" /\ v.c = "null" -> {}
    [] v.k = "object" -> {v.c, "Object"}
    [] isArray(v) -> {"Array", "Object"}
    [] typeOf(v) = "function" -> {"Function", "Object"}
    [] OTHER -> {}

\* value instanceof t: "true", "false", or "throw" (a TypeError)
instanceOf(value, t) ==
  IF typeOf(t) # "function" THEN X
  ELSE IF ProtoChain(value) = {} THEN F
  ELSE IF t.k # "ctor" THEN X
  ELSE Truthy(t.c \in ProtoChain(value))

\* the loose equality ==, which converts a numeric string to its number
LooseEquals(a, b) ==
  \/ a = b /\ a # NaN /\ a.k \notin {"array", "object"}
  \/ {a, b} = {Str(<<"5">>), Num(5)}

\* Array.prototype.includes: SameValueZero, objects compared by identity
SameValueZero(a, b) == a = b /\ a.k \notin {"array", "object"}

includes(es, value) == \E i \in 1..Len(es) : SameValueZero(es[i], value)

\* a suffix test that never succeeds
endsWithNever(s, tok) == FALSE

endsWith(s, tok) == Len(s) > 0 /\ s[Len(s)] = tok

dropLast(s) == SubSeq(s, 1, Len(s) - 1)

\* ------------------------------------------------------------ basic guards
anyGuard(v) == TRUE
booleanGuard(v) == typeOf(v) = "boolean"
bigintGuard(v) == typeOf(v) = "bigint"
functionGuard(v) == typeOf(v) = "function"
nullGuard(v) == v = Null
numberGuard(v) == typeOf(v) = "number"
\* the 'object' check of the legacy evaluator (line 339)
objectGuardStrict(v) == typeOf(v) = "object" /\ v # Null /\ ~isArray(v)
objectGuard(v) == typeOf(v) = "object"
stringGuard(v) == typeOf(v) = "string"
symbolGuard(v) == typeOf(v) = "symbol"
\* an 'undefined' check that accepts nothing
undefinedGuardNever(v) == FALSE
undefinedGuard(v) == v = Undefined
unknownGuard(v) == TRUE

arrayMarker == Str(<<"a">>)
recordMarker == Str(<<"r">>)
literalMarker == Str(<<"l">>)
instanceMarker == Str(<<"i">>)
andMarker == Str(<<"&">>)

isLiteralTypeDef(t) == isArray(t) /\ Elem(ArrElems(t), 0) = literalMarker
isInstanceTypeDef(t) == isArray(t) /\ Elem(ArrElems(t), 0) = instanceMarker
isAndTypeDef(t) == isArray(t) /\ Elem(ArrElems(t), 0) = andMarker
isArrayTypeDef(t) == isArray(t) /\ Elem(ArrElems(t), 0) = arrayMarker
isRecordTypeDef(t) == isArray(t) /\ Elem(ArrElems(t), 0) = recordMarker

\* what calling a caller-written function does: its result's truthiness
FnCall(f, value) ==
  CASE f = "throws" -> X
    [] f = "noop" -> F
    [] f = "const1" -> T
    [] OTHER -> F

RECURSIVE toStringIsEmpty(_)
\* String(v) === '' for the values of this universe
toStringIsEmpty(v) ==
  \/ v = Str(<<>>)
  \/ v = New("String")
  \/ isArray(v) /\ Len(ArrElems(v)) = 0
  \/ isArray(v) /\ Len(ArrElems(v)) = 1
       /\ (ArrElems(v)[1] \in {Null, Undefined} \/ toStringIsEmpty(ArrElems(v)[1]))

\* what calling a constructor without `new` does: String(v) is a string,
\* Date(v) a non-empty string, Object(v) an object, a class raises
CtorCall(c, value) ==
  CASE c = "String" -> Truthy(~toStringIsEmpty(value))
    [] c \in {"Date", "Object"} -> T
    [] OTHER -> X

RECURSIVE mainGuard(_, _, _)
RECURSIVE everyFrom(_, _, _)
RECURSIVE someFrom(_, _, _, _)
RECURSIVE someFromEvery(_, _, _, _)

\* pairs.every(([g, v]) => mainGuard(g, v)) from position i on; reading an
\* element that is an accessor which throws raises inside the callback
everyFrom(pairs, i, fuel) ==
  IF i > Len(pairs) THEN T
  ELSE IF pairs[i][1].k = "throws" \/ pairs[i][2].k = "throws" THEN X
  ELSE LET r == mainGuard(pairs[i][1], pairs[i][2], fuel)
       IN IF r = T THEN everyFrom(pairs, i + 1, fuel) ELSE r

\* some taken for every: all the alternatives must match
someFromEvery(defs, i, value, fuel) ==
  IF i > Len(defs) THEN T
  ELSE LET r == mainGuard(defs[i], value, fuel)
       IN IF r = T THEN someFromEvery(defs, i + 1, value, fuel) ELSE r

\* only the first alternative is tried
someFromFirst(defs, i, value, fuel) ==
  IF i > Len(defs) THEN F ELSE mainGuard(defs[i], value, fuel)

\* defs.some(g => mainGuard(g, value)) from position i on
someFrom(defs, i, value, fuel) ==
  IF i > Len(defs) THEN F
  ELSE LET r == mainGuard(defs[i], value, fuel)
       IN IF r = F THEN someFrom(defs, i + 1, value, fuel) ELSE r

literalGuard(t, value) == Truthy(includes(Tail(ArrElems(t)), value))

\* an instance check on the boxed form of the value: Object(value) instanceof t
instanceGuardBoxed(t, value) ==
  instanceOf(IF value.k = "string" THEN New("String")
             ELSE IF value.k = "number" THEN New("Number")
             ELSE IF value.k = "boolean" THEN New("Boolean")
             ELSE value, Elem(ArrElems(t), 1))

instanceGuard(t, value) == instanceOf(value, Elem(ArrElems(t), 1))

andGuard(t, value, fuel) ==
  everyFrom([i \in 1..(Len(ArrElems(t)) - 1) |-> <<ArrElems(t)[i + 1], value>>], 1, fuel)

\* every taken for some: an element must match, so an empty array fails
arrayGuardAny(t, value, fuel) ==
  IF ~isArray(value) THEN F
  ELSE someFrom(<<Elem(ArrElems(t), 1)>>, 1, Elem(ArrElems(value), 0), fuel)

\* an element check that descends into nested arrays of the value
arrayGuardDeep(t, value, fuel) ==
  IF ~isArray(value) THEN F
  ELSE everyFrom([i \in 1..Len(ArrElems(value)) |->
                    <<IF isArray(ArrElems(value)[i]) THEN t ELSE Elem(ArrElems(t), 1),
                      ArrElems(value)[i]>>], 1, fuel)

arrayGuard(t, value, fuel) ==
  IF ~isArray(value) THEN F
  ELSE everyFrom([i \in 1..Len(ArrElems(value)) |->
                    <<Elem(ArrElems(t), 1), ArrElems(value)[i]>>], 1, fuel)

\* a tuple check that also requires the lengths to agree
tupleGuardExact(t, value, fuel) ==
  IF ~isArray(value) \/ Len(ArrElems(value)) # Len(ArrElems(t)) THEN F
  ELSE everyFrom([i \in 1..Len(ArrElems(t)) |->
                    <<ArrElems(t)[i], Elem(ArrElems(value), i - 1)>>], 1, fuel)

tupleGuard(t, value, fuel) ==
  IF ~isArray(value) THEN F
  ELSE everyFrom([i \in 1..Len(ArrElems(t)) |->
                    <<ArrElems(t)[i], Elem(ArrElems(value), i - 1)>>], 1, fuel)

recordGuard(t, value, fuel) ==
  IF ~(typeOf(value) = "object" /\ value # Null) THEN F
  ELSE IF \E i \in 1..Len(ObjectValues(value)) : ObjectValues(value)[i].k = "throws" THEN X
  ELSE everyFrom([i \in 1..Len(ObjectValues(value)) |->
                    <<Elem(ArrElems(t), 1), ObjectValues(value)[i]>>], 1, fuel)

\* the shape check of the legacy evaluator (isOfShape): arrays are refused
curlyObjectGuardNoArrays(t, value, fuel) ==
  IF ~(typeOf(t) = "object" /\ t # Null /\ typeOf(value) = "object" /\ value # Null
       /\ ~isArray(value)) THEN F
  ELSE everyFrom([i \in 1..Len(ObjectKeys(t)) |->
                    <<Get(t, ObjectKeys(t)[i]), Get(value, ObjectKeys(t)[i])>>], 1, fuel)

\* the shape check of the legacy evaluator: a declared key must be present
curlyObjectGuardPresent(t, value, fuel) ==
  IF ~(typeOf(t) = "object" /\ t # Null /\ typeOf(value) = "object" /\ value # Null) THEN F
  ELSE IF \E i \in 1..Len(ObjectKeys(t)) :
            \A j \in 1..Len(ObjectKeys(value)) : ObjectKeys(value)[j] # ObjectKeys(t)[i]
    THEN F
  ELSE everyFrom([i \in 1..Len(ObjectKeys(t)) |->
                    <<Get(t, ObjectKeys(t)[i]), Get(value, ObjectKeys(t)[i])>>], 1, fuel)

curlyObjectGuard(t, value, fuel) ==
  IF ~(typeOf(t) = "object" /\ t # Null /\ typeOf(value) = "object" /\ value # Null) THEN F
  ELSE everyFrom([i \in 1..Len(ObjectKeys(t)) |->
                    <<Get(t, ObjectKeys(t)[i]), Get(value, ObjectKeys(t)[i])>>], 1, fuel)

\* guard(value) of createGuard, for the guard at index g
guardCall(g, value, fuel) == someFrom(arrays[guards[g].defs], 1, value, fuel)

\* the switch over the basic type strings
basicSwitch(s, value) ==
  CASE s = <<"any">> -> anyGuard(value)
    [] s = <<"boolean">> -> booleanGuard(value)
    [] s = <<"bigint">> -> bigintGuard(value)
    [] s = <<"function">> -> functionGuard(value)
    [] s = <<"null">> -> nullGuard(value)
    [] s = <<"number">> -> numberGuard(value)
    [] s = <<"object">> -> objectGuard(value)
    [] s = <<"string">> -> stringGuard(value)
    [] s = <<"symbol">> -> symbolGuard(value)
    [] s = <<"undefined">> -> undefinedGuard(value)
    [] s = <<"unknown">> -> unknownGuard(value)
    [] OTHER -> FALSE

\* the try block with an embedded guard taken for a function that returns
\* true without looking at the value
mainGuardTryOpaque(t, value, fuel) ==
  IF typeOf(t) = "string" THEN
    IF endsWith(t.s, "[]") THEN arrayGuard(Arr(<<arrayMarker, Str(dropLast(t.s))>>), value, fuel)
    ELSE IF endsWith(t.s, "?") THEN
      LET r == mainGuard(Str(dropLast(t.s)), value, fuel)
      IN IF r = F THEN Truthy(undefinedGuard(value)) ELSE r
    ELSE Truthy(basicSwitch(t.s, value))
  ELSE IF typeOf(t) = "function" THEN
    IF t.k = "guard" THEN T
    ELSE IF t.k = "ctor" THEN CtorCall(t.c, value)
    ELSE FnCall(t.f, value)
  ELSE IF isArrayTypeDef(t) THEN arrayGuard(t, value, fuel)
  ELSE IF isRecordTypeDef(t) THEN recordGuard(t, value, fuel)
  ELSE IF isLiteralTypeDef(t) THEN literalGuard(t, value)
  ELSE IF isInstanceTypeDef(t) THEN instanceGuard(t, value)
  ELSE IF isAndTypeDef(t) THEN andGuard(t, value, fuel)
  ELSE IF isArray(t) THEN tupleGuard(t, value, fuel)
  ELSE curlyObjectGuard(t, value, fuel)

\* the body of mainGuard's try block; fuel is the call stack left to the
\* calls it makes
mainGuardTry(t, value, fuel) ==
  IF typeOf(t) = "string" THEN
    IF endsWith(t.s, "[]") THEN arrayGuard(Arr(<<arrayMarker, Str(dropLast(t.s))>>), value, fuel)
    ELSE IF endsWith(t.s, "?") THEN
      LET r == mainGuard(Str(dropLast(t.s)), value, fuel)
      IN IF r = F THEN Truthy(undefinedGuard(value)) ELSE r
    ELSE Truthy(basicSwitch(t.s, value))
  ELSE IF typeOf(t) = "function" THEN
    IF t.k = "guard" THEN guardCall(t.g, value, fuel)
    ELSE IF t.k = "ctor" THEN CtorCall(t.c, value)
    ELSE FnCall(t.f, value)
  ELSE IF isArrayTypeDef(t) THEN arrayGuard(t, value, fuel)
  ELSE IF isRecordTypeDef(t) THEN recordGuard(t, value, fuel)
  ELSE IF isLiteralTypeDef(t) THEN literalGuard(t, value)
  ELSE IF isInstanceTypeDef(t) THEN instanceGuard(t, value)
  ELSE IF isAndTypeDef(t) THEN andGuard(t, value, fuel)
  ELSE IF isArray(t) THEN tupleGuard(t, value, fuel)
  ELSE curlyObjectGuard(t, value, fuel)

\* mainGuard without its catch block
mainGuardNoCatch(t, value, fuel) ==
  IF fuel = 0 THEN X ELSE mainGuardTry(t, value, fuel - 1)

\* try { ... } catch { return false }; a call with no stack left raises in
\* the caller
mainGuard(t, value, fuel) ==
  IF fuel = 0 THEN X
  ELSE LET r == mainGuardTry(t, value, fuel - 1)
       IN IF r = X THEN F ELSE r

\* ------------------------------------------------------ the call stack
\* The number of mainGuard frames on the stack at the deepest point of a
\* call: every and some stop at the first element that decides them, so only
\* the calls actually made are counted.
RECURSIVE frames(_, _)
RECURSIVE framesEvery(_, _)
RECURSIVE framesSome(_, _, _)

deeper(a, b) == IF a >= b THEN a ELSE b

\* pairs.every(([g, v]) => mainGuard(g, v)) from position i on
framesEvery(pairs, i) ==
  IF i > Len(pairs) THEN 0
  ELSE IF pairs[i][1].k = "throws" \/ pairs[i][2].k = "throws" THEN 0
  ELSE IF mainGuard(pairs[i][1], pairs[i][2], MaxStack) = T
    THEN deeper(frames(pairs[i][1], pairs[i][2]), framesEvery(pairs, i + 1))
  ELSE frames(pairs[i][1], pairs[i][2])

\* defs.some(g => mainGuard(g, value)) from position i on
framesSome(defs, i, value) ==
  IF i > Len(defs) THEN 0
  ELSE IF mainGuard(defs[i], value, MaxStack) = F
    THEN deeper(frames(defs[i], value), framesSome(defs, i + 1, value))
  ELSE frames(defs[i], value)

\* mainGuard(t, value): its own frame and the deepest of the calls it makes
frames(t, value) ==
  1 + (IF typeOf(t) = "string" THEN
         IF endsWith(t.s, "[]") THEN
           IF ~isArray(value) THEN 0
           ELSE framesEvery([i \in 1..Len(ArrElems(value)) |->
                               <<Str(dropLast(t.s)), ArrElems(value)[i]>>], 1)
         ELSE IF endsWith(t.s, "?") THEN frames(Str(dropLast(t.s)), value)
         ELSE 0
       ELSE IF typeOf(t) = "function" THEN
         IF t.k = "guard" THEN framesSome(arrays[guards[t.g].defs], 1, value) ELSE 0
       ELSE IF isArrayTypeDef(t) THEN
         IF ~isArray(value) THEN 0
         ELSE framesEvery([i \in 1..Len(ArrElems(value)) |->
                             <<Elem(ArrElems(t), 1), ArrElems(value)[i]>>], 1)
       ELSE IF isRecordTypeDef(t) THEN
         IF ~(typeOf(value) = "object" /\ value # Null) THEN 0
         ELSE IF \E i \in 1..Len(ObjectValues(value)) : ObjectValues(value)[i].k = "throws" THEN 0
         ELSE framesEvery([i \in 1..Len(ObjectValues(value)) |->
                             <<Elem(ArrElems(t), 1), ObjectValues(value)[i]>>], 1)
       ELSE IF isLiteralTypeDef(t) \/ isInstanceTypeDef(t) THEN 0
       ELSE IF isAndTypeDef(t) THEN
         framesEvery([i \in 1..(Len(ArrElems(t)) - 1) |-> <<ArrElems(t)[i + 1], value>>], 1)
       ELSE IF isArray(t) THEN
         IF ~isArray(value) THEN 0
         ELSE framesEvery([i \in 1..Len(ArrElems(t)) |->
                             <<ArrElems(t)[i], Elem(ArrElems(value), i - 1)>>], 1)
       ELSE IF ~(typeOf(t) = "object" /\ t # Null /\ typeOf(value) = "object" /\ value # Null)
         THEN 0
       ELSE framesEvery([i \in 1..Len(ObjectKeys(t)) |->
                           <<Get(t, ObjectKeys(t)[i]), Get(value, ObjectKeys(t)[i])>>], 1))

\* -------------------------------------------------------- the guard factory
\* A constructor's or combinator's effect on the heap: the arrays after the
\* call and the index of the array the new guard closes over.

\* createGuard(guardDefinitions): the guard object, closing over the array
createGuard(defs) == [defs |-> defs]

\* the fresh array literal [ ...elements ]
alloc(heap, elements) == Append(heap, elements)

\* the legacy createOr of lines 382-387: orTypes.push(t) on the receiver's array
createOrPush(prev, t) ==
  [arrays |-> [arrays EXCEPT ![prev] = Append(@, t)], defs |-> prev]

\* createGuard([...prevTypeDefinitions, t])
createOr(prev, t) ==
  [arrays |-> alloc(arrays, arrays[prev] \o <<t>>), defs |-> Len(arrays) + 1]

\* and distributed over every alternative of the union
createAndAll(prev, t) ==
  [arrays |-> alloc(arrays, [i \in 1..Len(arrays[prev]) |->
                               Arr(<<andMarker, arrays[prev][i], t>>)]),
   defs |-> Len(arrays) + 1]

\* and taken for or
createAndAsOr(prev, t) ==
  [arrays |-> alloc(arrays, arrays[prev] \o <<t>>), defs |-> Len(arrays) + 1]

\* and that extends an existing and-list in place: last.push(t)
createAndPush(prev, t) ==
  LET lastGuardDef == Elem(arrays[prev], Len(arrays[prev]) - 1)
  IN IF lastGuardDef.k = "aref" /\ Elem(ArrElems(lastGuardDef), 0) = andMarker
     THEN [arrays |-> alloc([arrays EXCEPT ![lastGuardDef.a] = Append(@, t)], arrays[prev]),
           defs |-> Len(arrays) + 1]
     ELSE LET heap1 == alloc(arrays, <<andMarker, lastGuardDef, t>>)
          IN [arrays |-> alloc(heap1, dropLast(arrays[prev]) \o <<ARef(Len(heap1))>>),
              defs |-> Len(heap1) + 1]

\* createGuard([...prevTypeDefinitions.slice(0, -1),
\*   last is an and-list ? [...last, t] : [andMarker, last, t]])
createAnd(prev, t) ==
  LET lastGuardDef == Elem(arrays[prev], Len(arrays[prev]) - 1)
      andList == IF isArray(lastGuardDef) /\ Elem(ArrElems(lastGuardDef), 0) = andMarker
                 THEN ArrElems(lastGuardDef) \o <<t>>
                 ELSE <<andMarker, lastGuardDef, t>>
      heap1 == alloc(arrays, andList)
  IN [arrays |-> alloc(heap1, dropLast(arrays[prev]) \o <<ARef(Len(heap1))>>),
      defs |-> Len(heap1) + 1]

createOrArrayOf(prev, t) ==
  [arrays |-> alloc(arrays, arrays[prev] \o <<Arr(<<arrayMarker, t>>)>>),
   defs |-> Len(arrays) + 1]

createOrRecordOf(prev, t) ==
  [arrays |-> alloc(arrays, arrays[prev] \o <<Arr(<<recordMarker, t>>)>>),
   defs |-> Len(arrays) + 1]

\* t is the sequence of the rest arguments
createOrLiterally(prev, t) ==
  [arrays |-> alloc(arrays, arrays[prev] \o <<Arr(<<literalMarker>> \o t)>>),
   defs |-> Len(arrays) + 1]

createOrInstanceOf(prev, t) ==
  [arrays |-> alloc(arrays, arrays[prev] \o <<Arr(<<instanceMarker, t>>)>>),
   defs |-> Len(arrays) + 1]

is(t) == [arrays |-> alloc(arrays, <<t>>), defs |-> Len(arrays) + 1]

isArrayOf(t) ==
  [arrays |-> alloc(arrays, <<Arr(<<arrayMarker, t>>)>>), defs |-> Len(arrays) + 1]

isRecordOf(t) ==
  [arrays |-> alloc(arrays, <<Arr(<<recordMarker, t>>)>>), defs |-> Len(arrays) + 1]

\* t is the sequence of the rest arguments
isLiterally(t) ==
  [arrays |-> alloc(arrays, <<Arr(<<literalMarker>> \o t)>>), defs |-> Len(arrays) + 1]

isInstanceOf(t) ==
  [arrays |-> alloc(arrays, <<Arr(<<instanceMarker, t>>)>>), defs |-> Len(arrays) + 1]

\* isOptional built with isNullable's list
isOptionalAsNullable(t) ==
  [arrays |-> alloc(arrays, <<t, Str(<<"null">>)>>), defs |-> Len(arrays) + 1]

isOptional(t) ==
  [arrays |-> alloc(arrays, <<t, Str(<<"undefined">>)>>), defs |-> Len(arrays) + 1]

isNullable(t) ==
  [arrays |-> alloc(arrays, <<t, Str(<<"null">>)>>), defs |-> Len(arrays) + 1]

isNullish(t) ==
  [arrays |-> alloc(arrays, <<t, Str(<<"null">>), Str(<<"undefined">>)>>),
   defs |-> Len(arrays) + 1]

\* a parser that returns a shallow copy of the accepted value
parserForCopy(g, value) ==
  LET r == guardCall(g, value, MaxStack)
  IN [raised |-> r = X,
      out |-> IF r = T THEN value ELSE Undefined,
      same |-> r = T /\ typeOf(value) # "object",
      evals |-> 1]

\* parserFor(guard)(value) = guard(value) ? value : undefined.  out is what
\* it returns, same tells that out is the argument itself (the reference
\* passed in), evals counts the calls of the guard, raised tells that the
\* guard raised.
parserFor(g, value) ==
  LET r == guardCall(g, value, MaxStack)
  IN [raised |-> r = X,
      out |-> IF r = T THEN value ELSE Undefined,
      same |-> r = T,
      evals |-> 1]

\* ----------------------------------------------------- text of a value
\* Text is a sequence of characters.  In this part of the universe every
\* token of a string value and every property name is one character long.
Quote == "\""

DigitChars == <<"0", "1", "2", "3", "4", "5", "6", "7", "8", "9">>

RECURSIVE Digits(_)
\* the decimal text of a natural number
Digits(n) ==
  IF n < 10 THEN <<DigitChars[n + 1]>>
  ELSE Digits(n \div 10) \o <<DigitChars[(n % 10) + 1]>>

\* an object that refers to itself
Cyclic == [k |-> "object", p |-> <<>>, c |-> "Object", cyclic |-> TRUE]
\* an object without prototype (no toString) that refers to itself
CyclicBare == [k |-> "object", p |-> <<>>, c |-> "null", cyclic |-> TRUE]

isCyclic(v) == v.k = "object" /\ "cyclic" \in DOMAIN v

NullText == <<"n", "u", "l", "l">>

RECURSIVE stringify(_)
RECURSIVE joinItems(_, _)
RECURSIVE joinProps(_, _, _)

\* the elements of an array from position i on, separated by commas; an
\* element without JSON text is written null
joinItems(e, i) ==
  IF i > Len(e) THEN <<>>
  ELSE (IF i > 1 THEN <<",">> ELSE <<>>)
       \o (IF stringify(e[i]) = Undefined THEN NullText ELSE stringify(e[i]).s)
       \o joinItems(e, i + 1)

\* the properties of an object from position i on; a property whose value
\* has no JSON text is left out
joinProps(p, i, first) ==
  IF i > Len(p) THEN <<>>
  ELSE IF stringify(p[i][2]) = Undefined THEN joinProps(p, i + 1, first)
  ELSE (IF first THEN <<>> ELSE <<",">>)
       \o <<Quote, p[i][1], Quote, ":">> \o stringify(p[i][2]).s
       \o joinProps(p, i + 1, FALSE)

\* JSON.stringify(v): a string, undefined, or Throws (a TypeError)
stringify(v) ==
  CASE v.k \in {"undefined", "function", "ctor", "guard", "symbol"} -> Undefined
    [] v.k = "null" -> Str(NullText)
    [] v.k = "boolean" ->
         Str(IF v.b THEN <<"t", "r", "u", "e">> ELSE <<"f", "a", "l", "s", "e">>)
    [] v.k = "number" -> IF v = NaN THEN Str(NullText) ELSE Str(Digits(v.n))
    [] v.k = "string" -> Str(<<Quote>> \o v.s \o <<Quote>>)
    [] v.k = "array" ->
         IF \E i \in 1..Len(v.e) : stringify(v.e[i]) = Throws THEN Throws
         ELSE Str(<<"[">> \o joinItems(v.e, 1) \o <<"]">>)
    [] v.k = "object" ->
         IF isCyclic(v) \/ \E i \in 1..Len(v.p) : stringify(v.p[i][2]) = Throws THEN Throws
         ELSE Str(<<"{">> \o joinProps(v.p, 1, TRUE) \o <<"}">>)
    [] OTHER -> Throws

RECURSIVE toString(_)
RECURSIVE joinStrings(_, _)

\* Array.prototype.join: null and undefined elements are written empty
joinStrings(e, i) ==
  IF i > Len(e) THEN <<>>
  ELSE (IF i > 1 THEN <<",">> ELSE <<>>)
       \o (IF e[i] \in {Null, Undefined} THEN <<>> ELSE toString(e[i]).s)
       \o joinStrings(e, i + 1)

\* String(v): a string, or Throws (a TypeError).  A function is written as
\* its source text, here that of `() => undefined`.
toString(v) ==
  CASE v.k = "undefined" -> Str(<<"u", "n", "d", "e", "f", "i", "n", "e", "d">>)
    [] v.k = "null" -> Str(NullText)
    [] v.k = "boolean" ->
         Str(IF v.b THEN <<"t", "r", "u", "e">> ELSE <<"f", "a", "l", "s", "e">>)
    [] v.k = "number" -> IF v = NaN THEN Str(<<"N", "a", "N">>) ELSE Str(Digits(v.n))
    [] v.k = "bigint" -> Str(Digits(v.n))
    [] v.k = "string" -> v
    [] v.k = "symbol" -> Str(<<"S", "y", "m", "b", "o", "l", "(", ")">>)
    [] v.k = "array" ->
         IF \E i \in 1..Len(v.e) :
              v.e[i] \notin {Null, Undefined}
                /\ (v.e[i].k = "symbol" \/ toString(v.e[i]) = Throws)
         THEN Throws
         ELSE Str(joinStrings(v.e, 1))
    [] v.k = "object" /\ v.c = "null" -> Throws
    [] v.k = "object" ->
         Str(<<"[", "o", "b", "j", "e", "c", "t", " ", "O", "b", "j", "e", "c", "t", "]">>)
    [] v.k \in {"function", "ctor", "guard"} ->
         Str(<<"(", ")", " ", "=", ">", " ", "u", "n", "d", "e", "f", "i", "n", "e", "d">>)
    [] OTHER -> Throws

PreviewMax == 80
PreviewKept == 77

NoError == [kind |-> "none", message |-> <<>>]
TypeError(message) == [kind |-> "TypeError", message |-> message]

\* the message of the TypeError the engine raises for undefined.length
EngineMessage == <<"Cannot read properties of undefined (reading 'length')">>

\* the caller left errorMessage out
NoMessage == Undefined

\* requireThat that raises when the guard accepts
requireThatInverted(g, value, errorMessage) ==
  IF guardCall(g, value, MaxStack) = T
  THEN [r |-> X, err |-> TypeError(<<>>)]
  ELSE [r |-> T, err |-> NoError]

\* requireThat(value, guard, errorMessage): r is "true" when it returns and
\* "throw" when it raises, err is the error raised
requireThat(g, value, errorMessage) ==
  IF guardCall(g, value, MaxStack) = T THEN [r |-> T, err |-> NoError]
  ELSE IF errorMessage.k = "string" /\ Len(errorMessage.s) > 0
    THEN [r |-> X, err |-> TypeError(errorMessage.s)]
  ELSE
    LET preview == IF stringify(value) # Throws THEN stringify(value)
                   ELSE IF toString(value) # Throws THEN toString(value)
                   ELSE Str(<<"[", "u", "n", "k", "n", "o", "w", "n", " ",
                              "v", "a", "l", "u", "e", "]">>)
    IN IF preview = Undefined THEN [r |-> X, err |-> TypeError(EngineMessage)]
       ELSE LET cut == IF Len(preview.s) > PreviewMax
                       THEN SubSeq(preview.s, 1, PreviewKept) \o <<".", ".", ".">>
                       ELSE preview.s
            IN [r |-> X,
                err |-> TypeError(<<"Type of '">> \o cut \o <<"' does not match type guard.">>)]

\* ------------------------------------------------------------ the universe
Tag(name) == Str(<<name>>)

\* the guards the module exports when it is loaded: isNumber = is('number'),
\* isString = is('string') (the other exported guards are built the same way)
isNumber == 1
isString == 2

NLoaded == 2

\* ---------------------------------------------------------------- actions
\* `made` is the history of the calls that built the guards: made[h] is the
\* call that returned guard h.  `last` is the latest call of a guard, a parser
\* or requireThat, with what it returned.
Made(op, g, t) == [op |-> op, g |-> g, t |-> t]

NoCall ==
  [op |-> "none", g |-> 0, v |-> Undefined, r |-> F, out |-> Undefined,
   same |-> FALSE, evals |-> 0, msg |-> Undefined, err |-> NoError]

Init ==
  /\ arrays = << <<Tag("number")>>, <<Tag("string")>> >>
  /\ guards = << createGuard(1), createGuard(2) >>
  /\ made = << Made("is", 0, Tag("number")), Made("is", 0, Tag("string")) >>
  /\ last = NoCall

\* a constructor or combinator returns: the heap it built, and the new guard
Create(res, op, g, t, max) ==
  /\ Len(guards) < NLoaded + max
  /\ arrays' = res.arrays
  /\ guards' = Append(guards, createGuard(res.defs))
  /\ made' = Append(made, Made(op, g, t))
  /\ last' = NoCall

Is(D, max) == \E t \in D : Create(is(t), "is", 0, t, max)

Or(D, max) ==
  \E g \in 1..Len(guards), t \in D :
    Create(createOr(guards[g].defs, t), "or", g, t, max)
And(D, max) ==
  \E g \in 1..Len(guards), t \in D :
    Create(createAnd(guards[g].defs, t), "and", g, t, max)
OrArrayOf(D, max) ==
  \E g \in 1..Len(guards), t \in D :
    Create(createOrArrayOf(guards[g].defs, t), "orArrayOf", g, t, max)
OrRecordOf(D, max) ==
  \E g \in 1..Len(guards), t \in D :
    Create(createOrRecordOf(guards[g].defs, t), "orRecordOf", g, t, max)
OrLiterally(L, max) ==
  \E g \in 1..Len(guards), t \in L :
    Create(createOrLiterally(guards[g].defs, t), "orLiterally", g, Arr(t), max)
OrInstanceOf(C, max) ==
  \E g \in 1..Len(guards), t \in C :
    Create(createOrInstanceOf(guards[g].defs, t), "orInstanceOf", g, t, max)

IsArrayOf(D, max) == \E t \in D : Create(isArrayOf(t), "isArrayOf", 0, t, max)
IsRecordOf(D, max) == \E t \in D : Create(isRecordOf(t), "isRecordOf", 0, t, max)
IsLiterally(L, max) == \E t \in L : Create(isLiterally(t), "isLiterally", 0, Arr(t), max)
IsInstanceOf(C, max) == \E t \in C : Create(isInstanceOf(t), "isInstanceOf", 0, t, max)
IsOptional(D, max) == \E t \in D : Create(isOptional(t), "isOptional", 0, t, max)
IsNullable(D, max) == \E t \in D : Create(isNullable(t), "isNullable", 0, t, max)
IsNullish(D, max) == \E t \in D : Create(isNullish(t), "isNullish", 0, t, max)

\* guard(value)
Call(V) ==
  \E g \in 1..Len(guards), v \in V :
    /\ last' = [NoCall EXCEPT !.op = "call", !.g = g, !.v = v, !.evals = 1,
                              !.r = guardCall(g, v, MaxStack)]
    /\ UNCHANGED <<arrays, guards, made>>

\* parserFor(guard)(value)
Parse(V) ==
  \E g \in 1..Len(guards), v \in V :
    /\ last' = [NoCall EXCEPT !.op = "parse", !.g = g, !.v = v,
                              !.r = IF parserFor(g, v).raised THEN X ELSE T,
                              !.out = parserFor(g, v).out,
                              !.same = parserFor(g, v).same,
                              !.evals = parserFor(g, v).evals]
    /\ UNCHANGED <<arrays, guards, made>>

\* requireThat(value, guard, errorMessage)
Require(V, M) ==
  \E g \in 1..Len(guards), v \in V, m \in M :
    /\ last' = [NoCall EXCEPT !.op = "require", !.g = g, !.v = v, !.msg = m,
                              !.evals = 1,
                              !.r = requireThat(g, v, m).r,
                              !.err = requireThat(g, v, m).err]
    /\ UNCHANGED <<arrays, guards, made>>

\* ------------------------------------------- the combinator algebra (Spec)
\* Every combinator, applied to any guard that exists, and calls of the guards.
OrDefs == {Tag("number"), Tag("object")}
AndDefs == {Tag("null")}
ElemDefs == {Tag("number")}
Lits == {<<Str(<<"a">>), Num(0)>>}
Ctors == {Ctor("Array")}
Values == {Num(0), Str(<<>>), Bool(TRUE)}

Next ==
  \/ Is({Tag("object")}, MaxGuards)
  \/ Or(OrDefs, MaxGuards)
  \/ And(AndDefs, MaxGuards)
  \/ OrArrayOf(ElemDefs, MaxGuards)
  \/ OrRecordOf(ElemDefs, MaxGuards)
  \/ OrLiterally(Lits, MaxGuards)
  \/ OrInstanceOf(Ctors, MaxGuards)
  \/ Call(Values)

Spec == Init /\ [][Next]_vars

\* ------------------------------------------------ intersections (SpecAnd)
AndValues == {Num(0), Str(<<>>), Null, Obj(<<>>)}

NextAnd ==
  \/ Is({Tag("object")}, MaxGuards)
  \/ Or({Tag("object"), Tag("number")}, MaxGuards)
  \/ And({Tag("null"), Tag("object")}, MaxGuards)
  \/ Call(AndValues)

SpecAnd == Init /\ [][NextAnd]_vars

\* ------------------------------------------------------ unions (SpecUnion)
UnionDefs == {Tag("string"), Tag("number"), Fn("throws")}
UnionValues == {Num(0), Str(<<>>), Bool(TRUE)}

NextUnion ==
  \/ Is(UnionDefs, MaxGuards)
  \/ Or(UnionDefs, MaxGuards)
  \/ Call(UnionValues)

SpecUnion == Init /\ [][NextUnion]_vars

\* ------------------------------- the shapes of the test suite (SpecShapes)
\* 'intersects complex types': isA, isB, isC, isD are built first, then
\* combined with or and and, and called on value1, value2, value3.
shapeA == Obj(<< <<"a", GuardRef(isString)>> >>)
shapeB == Obj(<< <<"b", GuardRef(isString)>> >>)
shapeC == Obj(<< <<"c", GuardRef(isString)>> >>)
shapeD == Obj(<< <<"d", GuardRef(isString)>> >>)

isA == 3
isB == 4
isC == 5
isD == 6

value1 == Obj(<< <<"a", Str(<<>>)>>, <<"b", Str(<<>>)>> >>)
value2 == Obj(<< <<"c", Str(<<>>)>> >>)
value3 == Obj(<< <<"c", Str(<<>>)>>, <<"d", Str(<<>>)>> >>)

InitShapes ==
  /\ arrays = << <<Tag("number")>>, <<Tag("string")>>, <<shapeA>>, <<shapeB>>,
                 <<shapeC>>, <<shapeD>> >>
  /\ guards = [i \in 1..isD |-> createGuard(i)]
  /\ made = [i \in 1..isD |-> Made("is", 0, arrays[i][1])]
  /\ last = NoCall

NextShapes ==
  \/ Or({GuardRef(isB)}, isD - NLoaded + MaxGuards)
  \/ And({GuardRef(isC)}, isD - NLoaded + MaxGuards)
  \/ Call({value1, value2, value3})

SpecShapes == InitShapes /\ [][NextShapes]_vars

\* ------------------------------------------------ the basic tags (SpecTags)
MaxTagGuards == 1

TagNames == {"any", "boolean", "bigint", "function", "null", "number", "object",
             "string", "symbol", "undefined", "unknown"}

\* the `values` of the test suite, and an array
TestValues == {Bool(TRUE), BigInt(0), Fn("noop"), Null, Num(0), Obj(<<>>), Str(<<>>),
               Sym(1), Undefined, Arr(<<>>)}

NextTags ==
  \/ Is({Tag(n) : n \in TagNames}, MaxTagGuards)
  \/ Call(TestValues)

SpecTags == Init /\ [][NextTags]_vars

\* --------------------------------------- malformed definitions (SpecTotal)
MaxTotalGuards == 1

TotalDefs == {Fn("throws"), Tag("foo"), Null, Num(5), Ctor("Person"),
              Obj(<< <<"a", Tag("string")>> >>)}
BadCtors == {Num(3), Fn("noop")}
TotalValues == {Str(<<>>), Obj(<<>>), Obj(<< <<"a", Throws>> >>)}

NextTotal ==
  \/ Is(TotalDefs, MaxTotalGuards)
  \/ Or(TotalDefs, MaxTotalGuards)
  \/ OrRecordOf(TotalDefs, MaxTotalGuards)
  \/ OrInstanceOf(BadCtors, MaxTotalGuards)
  \/ Call(TotalValues)
  \/ Parse(TotalValues)
  \/ Require(TotalValues, {NoMessage})

SpecTotal == Init /\ [][NextTotal]_vars

\* ------------------------------------------------ object shapes (SpecObject)
MaxObjectGuards == 1

ageShape == Obj(<< <<"age", Tag("number")>> >>)
john == Obj(<< <<"name", Str(<<"John">>)>> >>)
john40 == Obj(<< <<"name", Str(<<"John">>)>>, <<"age", Num(40)>> >>)

ObjectDefs ==
  {Obj(<<>>), ageShape,
   Obj(<< <<"a", Tag("undefined")>> >>),
   Obj(<< <<"a", Tag("string")>> >>),
   Obj(<< <<"a", Tag("string")>>, <<"b", Tag("number")>> >>),
   Obj(<< <<"a", Obj(<< <<"b", Tag("string")>> >>)>> >>),
   Obj(<< <<"a", GuardRef(isString)>> >>)}

ObjectInputs ==
  {Null, Str(<<"hello">>), Arr(<<>>), Obj(<<>>), john, john40,
   Obj(<< <<"a", Str(<<>>)>> >>),
   Obj(<< <<"a", Undefined>> >>),
   Obj(<< <<"a", Str(<<>>)>>, <<"b", Num(0)>> >>),
   Obj(<< <<"b", Num(0)>>, <<"a", Str(<<>>)>> >>),
   Obj(<< <<"a", Obj(<< <<"b", Str(<<>>)>> >>)>> >>)}

NextObject ==
  \/ Is(ObjectDefs, MaxObjectGuards)
  \/ Call(ObjectInputs)

SpecObject == Init /\ [][NextObject]_vars

\* ---------------------------------------------- record quantifier (SpecRecord)
MaxRecordGuards == 1

RecordDefs == {Tag("string"), Tag("number"), Obj(<< <<"a", Tag("string")>> >>)}

RecordInputs ==
  {Null, Str(<<>>), Obj(<<>>), Arr(<<>>), Arr(<<Str(<<"x">>)>>),
   Obj(<< <<"k", Str(<<>>)>> >>), Obj(<< <<"k", Num(0)>> >>),
   Obj(<< <<"k", Str(<<>>)>>, <<"l", Num(0)>> >>),
   Obj(<< <<"k", Obj(<< <<"a", Str(<<>>)>> >>)>> >>)}

NextRecord ==
  \/ IsRecordOf(RecordDefs, MaxRecordGuards)
  \/ OrRecordOf(RecordDefs, MaxRecordGuards)
  \/ Call(RecordInputs)

SpecRecord == Init /\ [][NextRecord]_vars

\* ------------------------------------------------ array quantifier (SpecArray)
\* isArrayOf and orArrayOf over basic tags and over the guards built so far,
\* is('string').or('number') among them.
MaxArrayGuards == 2

ArrayDefs == {Tag("string"), Tag("number")}

ArrayInputs ==
  {Str(<<>>), Obj(<<>>), Arr(<<>>), Arr(<<Str(<<>>)>>), Arr(<<Num(0)>>),
   Arr(<<Str(<<>>), Num(0)>>), Arr(<<Bool(TRUE)>>)}

NextArray ==
  \/ Or({Tag("number")}, MaxArrayGuards)
  \/ IsArrayOf(ArrayDefs \cup {GuardRef(g) : g \in (NLoaded + 1)..Len(guards)}, MaxArrayGuards)
  \/ OrArrayOf({Tag("number")}, MaxArrayGuards)
  \/ Call(ArrayInputs)

SpecArray == Init /\ [][NextArray]_vars

\* ------------------------------------------------------- tuples (SpecTuple)
MaxTupleGuards == 1

strNumTuple == Arr(<<Tag("string"), Tag("number")>>)

TupleDefs ==
  {Arr(<<>>), Arr(<<Tag("string")>>), Arr(<<Tag("undefined")>>), strNumTuple,
   Arr(<<GuardRef(isString)>>), Arr(<<Arr(<<Tag("string")>>)>>)}

TupleInputs ==
  {Null, Str(<<"high">>), Obj(<<>>), Arr(<<>>), Arr(<<Undefined>>), Arr(<<Str(<<>>)>>),
   Arr(<<Str(<<"high">>)>>), Arr(<<Str(<<"high">>), Num(5)>>),
   Arr(<<Str(<<>>), Num(0)>>), Arr(<<Str(<<>>), Num(0), Bool(TRUE)>>),
   Arr(<<Num(0), Str(<<>>)>>), Arr(<<Arr(<<Str(<<>>)>>)>>)}

NextTuple ==
  \/ Is(TupleDefs, MaxTupleGuards)
  \/ Call(TupleInputs)

SpecTuple == Init /\ [][NextTuple]_vars

\* ---------------------------------------------------- literals (SpecLiteral)
MaxLiteralGuards == 1

LiteralLists ==
  {<<Str(<<"a">>)>>, <<Num(5)>>, <<Str(<<"5">>)>>, <<Bool(TRUE)>>, <<Str(<<"string">>)>>,
   <<NaN>>, <<Str(<<"a">>), Num(1), Bool(TRUE)>>}

LiteralInputs ==
  {Str(<<"a">>), Str(<<"b">>), Str(<<"5">>), Str(<<"string">>), Num(5), Num(6), Num(1),
   NaN, Bool(TRUE), Bool(FALSE), Undefined, Arr(<<Str(<<"a">>)>>)}

NextLiteral ==
  \/ IsLiterally(LiteralLists, MaxLiteralGuards)
  \/ OrLiterally(LiteralLists, MaxLiteralGuards)
  \/ Call(LiteralInputs)

SpecLiteral == Init /\ [][NextLiteral]_vars

\* -------------------------------------------------- instances (SpecInstance)
MaxInstanceGuards == 1

Constructors == {Ctor("Object"), Ctor("String"), Ctor("Date"), Ctor("RegExp"), Ctor("Person")}

InstanceInputs ==
  {Str(<<>>), Num(0), Null, Undefined, Obj(<<>>), Arr(<<>>), New("String"), New("Date"),
   New("RegExp"), New("Person"), Ctor("Date"), Ctor("Person"), Fn("noop")}

NextInstance ==
  \/ IsInstanceOf(Constructors, MaxInstanceGuards)
  \/ OrInstanceOf(Constructors, MaxInstanceGuards)
  \/ Call(InstanceInputs)

SpecInstance == Init /\ [][NextInstance]_vars

\* ------------------------------------------- the tag suffixes (SpecSuffix)
\* is('T[]'), is('T?') and is('T[]?') for every basic tag T, next to is('T')
\* and isArrayOf('T').
MaxSuffixGuards == 1

ArrayTags == {Str(<<n, "[]">>) : n \in TagNames}
OptionalTags == {Str(<<n, "?">>) : n \in TagNames} \cup {Str(<<n, "[]", "?">>) : n \in TagNames}

SuffixInputs ==
  TestValues \cup {Arr(<<v>>) : v \in TestValues \ {Arr(<<>>)}}
    \cup {Arr(<<Str(<<>>), Str(<<>>)>>), Arr(<<Str(<<>>), Num(0)>>)}

NextSuffix ==
  \/ Is(ArrayTags \cup OptionalTags, MaxSuffixGuards)
  \/ IsArrayOf({Tag(n) : n \in TagNames}, MaxSuffixGuards)
  \/ Call(SuffixInputs)

SpecSuffix == Init /\ [][NextSuffix]_vars

\* ------------------------------- optional and nullable guards (SpecOptional)
\* isOptional, isNullable and isNullish of a definition d, next to the chains
\* is(d).or('undefined'), is(d).or('null') and is(d).or('null').or('undefined')
\* built from the loaded guards is('number') and is('string').
MaxOptionalGuards == 3

OptionalDefs == {Tag("string")}

OptionalInputs == {Str(<<>>), Num(0), Null, Undefined}

NextOptional ==
  \/ Or({Tag("null"), Tag("undefined")}, MaxOptionalGuards)
  \/ IsOptional(OptionalDefs, MaxOptionalGuards)
  \/ IsNullable(OptionalDefs, MaxOptionalGuards)
  \/ IsNullish(OptionalDefs, MaxOptionalGuards)
  \/ Call(OptionalInputs)

SpecOptional == Init /\ [][NextOptional]_vars

\* ------------------------------------------------------ parsers (SpecParse)
MaxParseGuards == 1

hello == Obj(<< <<"prop1", Str(<<"hello">>)>> >>)
guardSuccess == Obj(<< <<"prop1", GuardRef(isString)>> >>)
guardFail == Obj(<< <<"prop1", GuardRef(isString)>>, <<"prop2", GuardRef(isString)>> >>)

ParseDefs == {Tag("object"), Tag("undefined"), Tag("any"), guardSuccess, guardFail}

ParseInputs == {Str(<<>>), Num(0), Undefined, Null, Obj(<<>>), hello, Arr(<<Num(0)>>)}

NextParse ==
  \/ Is(ParseDefs, MaxParseGuards)
  \/ Or(ParseDefs, MaxParseGuards)
  \/ Parse(ParseInputs)

SpecParse == Init /\ [][NextParse]_vars

\* -------------------------------------------------- assertions (SpecRequire)
MaxRequireGuards == 1

\* a string of n characters
Long(n) == Str([i \in 1..n |-> "x"])

johnRow == Obj(<< <<"i", Num(7)>>, <<"n", Str(<<"J", "o", "h", "n">>)>> >>)

RequireDefs == {Tag("any"), Obj(<< <<"i", Tag("number")>>, <<"n", Tag("string")>> >>)}

RequireInputs ==
  {Num(5), Str(<<>>), Null, Undefined, Fn("noop"), Sym(1), BigInt(1), Bool(FALSE),
   johnRow, Cyclic, CyclicBare, Arr(<<Num(1), Undefined>>),
   Obj(<< <<"a", Undefined>>, <<"b", Long(3)>> >>),
   Long(PreviewKept), Long(PreviewMax - 2), Long(PreviewMax - 1), Long(PreviewMax + 5)}

Messages == {NoMessage, Str(<<>>), Str(<<"w", "o", "o", "p", "s">>)}

NextRequire ==
  \/ Is(RequireDefs, MaxRequireGuards)
  \/ Require(RequireInputs, Messages)

SpecRequire == Init /\ [][NextRequire]_vars

\* ------------------------------------------------ composition (SpecCompose)
MaxComposeGuards == 2

\* every guard that exists, as a definition
Existing == {GuardRef(g) : g \in 1..Len(guards)}

ComposeShapes ==
  {Obj(<< <<"a", GuardRef(isString)>> >>), Arr(<<GuardRef(isString), GuardRef(isNumber)>>)}

ComposeValues ==
  {Str(<<>>), Num(0), Bool(TRUE), Obj(<< <<"a", Str(<<>>)>> >>), Obj(<< <<"a", Num(0)>> >>),
   Arr(<<Str(<<>>), Num(0)>>), Arr(<<Str(<<>>)>>)}

NextCompose ==
  \/ Is(Existing \cup ComposeShapes, MaxComposeGuards)
  \/ Or({GuardRef(isNumber)}, MaxComposeGuards)
  \/ And({GuardRef(isString)}, MaxComposeGuards)
  \/ IsArrayOf({GuardRef(isString)}, MaxComposeGuards)
  \/ IsRecordOf({GuardRef(isString)}, MaxComposeGuards)
  \/ Call(ComposeValues)

SpecCompose == Init /\ [][NextCompose]_vars

\* ----------------------------------------- the shape of OR-sets (SpecOrSet)
\* Every constructor, then every combinator applied to any guard that exists.
MaxOrSetGuards == 2

OrSetValues == {Str(<<>>), Null, Obj(<<>>)}

NextOrSet ==
  \/ Is({Tag("boolean")}, MaxOrSetGuards)
  \/ IsArrayOf(ElemDefs, MaxOrSetGuards)
  \/ IsRecordOf(ElemDefs, MaxOrSetGuards)
  \/ IsLiterally(Lits, MaxOrSetGuards)
  \/ IsInstanceOf(Ctors, MaxOrSetGuards)
  \/ IsOptional({Tag("boolean")}, MaxOrSetGuards)
  \/ IsNullable({Tag("boolean")}, MaxOrSetGuards)
  \/ IsNullish({Tag("boolean")}, MaxOrSetGuards)
  \/ Or({Tag("object")}, MaxOrSetGuards)
  \/ And(AndDefs, MaxOrSetGuards)
  \/ OrArrayOf(ElemDefs, MaxOrSetGuards)
  \/ OrRecordOf(ElemDefs, MaxOrSetGuards)
  \/ OrLiterally(Lits, MaxOrSetGuards)
  \/ OrInstanceOf(Ctors, MaxOrSetGuards)
  \/ Call(OrSetValues)

SpecOrSet == Init /\ [][NextOrSet]_vars

\* ------------------------------------------- chains of and (SpecAndChain)
\* g.and(b), g.and(b).and(c) and a sibling g.and(b).and(c') next to one another.
MaxChainGuards == 3

ChainValues == {Str(<<>>), Null, Obj(<<>>)}

NextAndChain ==
  \/ Or({Tag("object")}, MaxChainGuards)
  \/ And({Tag("null"), Tag("any")}, MaxChainGuards)
  \/ Call(ChainValues)

SpecAndChain == Init /\ [][NextAndChain]_vars

\* ------------------------------------------- faults in alternatives (SpecFault)
\* Alternatives whose evaluation raises (a function that throws, an instance
\* check against a non-constructor, a read of an accessor that throws) before
\* and after alternatives that do not.
MaxFaultGuards == 2

FaultDefs == {Fn("throws"), Tag("string"), Tag("number"),
              Obj(<< <<"a", Tag("string")>> >>), Obj(<< <<"a", Fn("throws")>> >>)}

FaultValues == {Str(<<"x">>), Num(0), Obj(<< <<"a", Throws>> >>), Obj(<< <<"a", Str(<<>>)>> >>)}

NextFault ==
  \/ Is(FaultDefs, MaxFaultGuards)
  \/ IsInstanceOf(BadCtors, MaxFaultGuards)
  \/ IsRecordOf({Tag("object")}, MaxFaultGuards)
  \/ Or({Tag("string"), Tag("number"), Tag("object"), Fn("throws")}, MaxFaultGuards)
  \/ Call(FaultValues)

SpecFault == Init /\ [][NextFault]_vars

\* -------------------------------------------------- nesting depth (SpecDepth)
\* Definitions nested to several depths, guards embedded in guards, and
\* values nested deeper than any of the definitions.
MaxDepthGuards == 2

DepthDefs ==
  {Str(<<"number", "[]">>), Str(<<"number", "[]", "?">>),
   Obj(<< <<"a", Obj(<< <<"b", Tag("number")>> >>)>> >>),
   Arr(<<Tag("number"), Arr(<<Tag("number")>>)>>)}

deepArray == Arr(<<Arr(<<Arr(<<Arr(<<Num(0)>>)>>)>>)>>)
deepObject ==
  Obj(<< <<"a", Obj(<< <<"b", Obj(<< <<"a", Obj(<< <<"b", Num(0)>> >>)>> >>)>> >>)>> >>)

DepthValues ==
  {Num(0), Arr(<<Num(0), Arr(<<Num(0)>>)>>), deepArray,
   Obj(<< <<"a", Obj(<< <<"b", Num(0)>> >>)>> >>), deepObject}

NextDepth ==
  \/ Is(DepthDefs \cup Existing, MaxDepthGuards)
  \/ IsArrayOf({Tag("number")} \cup Existing, MaxDepthGuards)
  \/ IsRecordOf(Existing, MaxDepthGuards)
  \/ Or({Tag("string")}, MaxDepthGuards)
  \/ And({Tag("object")}, MaxDepthGuards)
  \/ Call(DepthValues)

SpecDepth == Init /\ [][NextDepth]_vars

\* ------------------------------------------------------------------ claims
\* the OR-set of guard g as the caller could read it: the array it closes
\* over, an engine-allocated intersection list shown by its elements
resolve(e) == IF e.k = "aref" THEN Arr(arrays[e.a]) ELSE e

orSet(g) == [i \in 1..Len(arrays[guards[g].defs]) |-> resolve(arrays[guards[g].defs][i])]

\* g(v) as a boolean
accepts(g, v) == guardCall(g, v, MaxStack) = T

\* is(t)(v) as a boolean, for a definition t
matches(t, v) == someFrom(<<t>>, 1, v, MaxStack) = T

\* C1: no constructor or combinator call changes the OR-set of a guard that
\* already exists, nor what that guard answers for any value.
C1_ReceiverNotMutated ==
  [][<<arrays, guards>>' # <<arrays, guards>> =>
       \A g \in 1..Len(guards) :
         /\ orSet(g)' = orSet(g)
         /\ \A v \in Values : accepts(g, v)' = accepts(g, v)]_vars

\* is('string').or('number') exists, and a guard was derived from it in turn;
\* is('string') still rejects 0, the derived guard accepts it
C1_Witness ==
  \E h \in 1..Len(guards), h2 \in 1..Len(guards) :
    /\ made[h] = Made("or", isString, Tag("number"))
    /\ made[h2].g = h
    /\ ~accepts(isString, Num(0))
    /\ accepts(h, Num(0))
    /\ accepts(isString, Str(<<>>))
    /\ accepts(h, Str(<<>>))

\* the element a combinator of the or family appends for its argument t
appended(op, t) ==
  CASE op = "or" -> t
    [] op = "orArrayOf" -> Arr(<<arrayMarker, t>>)
    [] op = "orRecordOf" -> Arr(<<recordMarker, t>>)
    [] op = "orLiterally" -> Arr(<<literalMarker>> \o t.e)
    [] op = "orInstanceOf" -> Arr(<<instanceMarker, t>>)

OrFamily == {"or", "orArrayOf", "orRecordOf", "orLiterally", "orInstanceOf"}

\* the OR-set `and` builds from the OR-set base and the argument t
intersected(base, t) ==
  LET l == base[Len(base)]
  IN dropLast(base) \o
       << IF l.k = "array" /\ Elem(l.e, 0) = andMarker
          THEN Arr(l.e \o <<t>>)
          ELSE Arr(<<andMarker, l, t>>) >>

\* C2: whatever guards have been derived from a base guard, in any order, the
\* OR-set of each derived guard is the base's OR-set extended by its own
\* argument alone, and a derived guard accepts a value only if its base
\* accepts it or (or family) its own argument matches it.
C2_SiblingsIndependent ==
  /\ \A h \in 1..Len(guards) :
       /\ made[h].op \in OrFamily =>
            orSet(h) = orSet(made[h].g) \o <<appended(made[h].op, made[h].t)>>
       /\ made[h].op = "and" => orSet(h) = intersected(orSet(made[h].g), made[h].t)
  /\ last.op = "call" /\ last.r = T =>
       /\ made[last.g].op \in OrFamily =>
            \/ accepts(made[last.g].g, last.v)
            \/ matches(appended(made[last.g].op, made[last.g].t), last.v)
       /\ made[last.g].op = "and" => accepts(made[last.g].g, last.v)

\* two guards derived from is('string') with different arguments; the one
\* called rejects a value its sibling accepts
C2_Witness ==
  \E h2 \in 1..Len(guards) :
    /\ last.op = "call"
    /\ last.g # h2
    /\ made[last.g].g = isString
    /\ made[h2].g = isString
    /\ made[last.g].op = "or"
    /\ made[h2].op = "or"
    /\ last.r = F
    /\ accepts(h2, last.v)

\* the alternatives of guard g as the evaluator walks them
alternatives(g) == arrays[guards[g].defs]

\* C3: g.and(d) accepts v iff an alternative of g before the last matches v,
\* or the last alternative of g and d both match v; so a.or(b).and(c) is
\* a or (b and c), and a.and(b).or(c) is (a and b) or c.
C3_AndBindsToLastTerm ==
  last.op = "call" =>
    LET h == last.g
        g == made[h].g
        v == last.v
    IN /\ made[h].op = "and" =>
            LET ts == alternatives(g)
            IN (last.r = T) <=>
                 \/ \E i \in 1..(Len(ts) - 1) : matches(ts[i], v)
                 \/ matches(ts[Len(ts)], v) /\ matches(made[h].t, v)
       /\ made[h].op = "or" /\ made[g].op = "and" /\ made[made[g].g].op = "is" =>
            (last.r = T) <=>
              \/ matches(made[made[g].g].t, v) /\ matches(made[g].t, v)
              \/ matches(made[h].t, v)

\* a.or(b).and(c) was called on a value that a accepts and c rejects, and
\* answered true
C3_Witness ==
  /\ last.op = "call"
  /\ made[last.g].op = "and"
  /\ made[made[last.g].g].op = "or"
  /\ last.r = T
  /\ ~matches(made[last.g].t, last.v)

\* C4 (as claimed): g.and(d) accepts v only if g accepts v and is(d) accepts v.
C4_AndIntersectsWholeGuard ==
  last.op = "call" /\ made[last.g].op = "and" /\ last.r = T =>
    /\ accepts(made[last.g].g, last.v)
    /\ matches(made[last.g].t, last.v)

\* the guard isA.or(isB).and(isC) of the test suite
IsAorBandC(h) ==
  /\ made[h] = Made("and", made[h].g, GuardRef(isC))
  /\ made[made[h].g] = Made("or", isA, GuardRef(isB))

\* C5 (as claimed): {c: ''} satisfies isA.or(isB).and(isC).
C5_ValueCSatisfies ==
  last.op = "call" /\ IsAorBandC(last.g) /\ last.v = value2 => last.r = T

\* C5 (amended): {c: ''} does not satisfy isA.or(isB).and(isC).
C5_ValueCRejected ==
  last.op = "call" /\ IsAorBandC(last.g) /\ last.v = value2 => last.r = F

\* isA.or(isB).and(isC) was called on {c: ''}
C5_Witness == last.op = "call" /\ IsAorBandC(last.g) /\ last.v = value2

\* C6: calling a guard answers true or false and never raises, whatever the
\* definition (a function that throws, an unknown tag, null, a number, an
\* instance check against a non-constructor) and the value; a parser never
\* raises; only requireThat raises.
C6_Total ==
  /\ last.op = "call" => last.r \in {T, F}
  /\ last.op = "parse" => last.r # X /\ last.out # Throws
  /\ last.r = X => last.op = "require"
  /\ \A g \in 1..Len(guards), v \in TotalValues : guardCall(g, v, MaxStack) \in {T, F}

\* a guard was called and the evaluation of one of its alternatives raised
\* inside mainGuard's try block
C6_Witness ==
  /\ last.op = "call"
  /\ last.r = F
  /\ \E i \in 1..Len(alternatives(last.g)) :
       mainGuardTry(alternatives(last.g)[i], last.v, MaxStack - 1) = X

\* C7: a guard accepts v iff at least one alternative of its OR-set matches
\* v; g.or(d)(v) = g(v) or is(d)(v); is('string').or('number') accepts '' and
\* 0 and rejects true.
C7_Union ==
  last.op = "call" =>
    /\ (last.r = T) <=>
         \E i \in 1..Len(alternatives(last.g)) : matches(alternatives(last.g)[i], last.v)
    /\ made[last.g].op = "or" =>
         ((last.r = T) <=>
            accepts(made[last.g].g, last.v) \/ matches(made[last.g].t, last.v))
    /\ made[last.g] = Made("or", isString, Tag("number")) =>
         ((last.r = T) <=> last.v \in {Str(<<>>), Num(0)})

\* is('string').or('number') was called on 0, which is('string') rejects
C7_Witness ==
  /\ last.op = "call"
  /\ made[last.g] = Made("or", isString, Tag("number"))
  /\ last.v = Num(0)
  /\ last.r = T
  /\ ~accepts(isString, Num(0))

Count(seq, x) == Cardinality({i \in 1..Len(seq) : seq[i] = x})

IsPermutation(s1, s2) ==
  /\ Len(s1) = Len(s2)
  /\ \A i \in 1..Len(s1) : Count(s1, s1[i]) = Count(s2, s1[i])

\* C8: two guards whose OR-sets hold the same alternatives in a different
\* order answer the same for every value; is(d1).or(d2)(x) = is(d2).or(d1)(x).
C8_UnionCommutes ==
  last.op = "call" =>
    \A h \in 1..Len(guards) :
      IsPermutation(alternatives(h), alternatives(last.g)) =>
        (accepts(h, last.v) <=> last.r = T)

\* is('string').or('number') and is('number').or('string') both exist, and
\* the first was called on 0
C8_Witness ==
  \E h \in 1..Len(guards) :
    /\ last.op = "call"
    /\ made[last.g] = Made("or", isString, Tag("number"))
    /\ made[h] = Made("or", isNumber, Tag("string"))
    /\ last.v = Num(0)
    /\ last.r = T

\* the documented check of a basic tag
primitiveTest(name, v) ==
  CASE name \in {"any", "unknown"} -> TRUE
    [] name = "null" -> v = Null
    [] name = "undefined" -> v = Undefined
    [] OTHER -> typeOf(v) = name

Primitives == {"boolean", "bigint", "number", "string", "symbol", "undefined"}

\* C9: for every basic tag t and value v, is(t)(v) is the documented check:
\* typeof v === t, v === null for 'null', v === undefined for 'undefined',
\* true for 'any' and 'unknown'; is('object') accepts null and {} and rejects
\* every primitive.
C9_BasicTags ==
  last.op = "call" /\ made[last.g].op = "is" =>
    LET name == made[last.g].t.s[1]
    IN /\ (last.r = T) <=> primitiveTest(name, last.v)
       /\ name = "object" /\ last.v \in {Null, Obj(<<>>)} => last.r = T
       /\ name = "object" /\ last.v.k \in Primitives => last.r = F

\* is('object') was called on null and accepted it
C9_Witness ==
  /\ last.op = "call"
  /\ made[last.g] = Made("is", 0, Tag("object"))
  /\ last.v = Null
  /\ last.r = T

\* C10 (as claimed): is('object')(null) is false and is('object')([]) is false.
C10_ObjectExcludesNullAndArrays ==
  last.op = "call" /\ made[last.g] = Made("is", 0, Tag("object"))
    /\ last.v \in {Null, Arr(<<>>)} => last.r = F

\* C10 (amended): is('object')(null) is true and is('object')([]) is true.
C10_ObjectAcceptsNullAndArrays ==
  last.op = "call" /\ made[last.g] = Made("is", 0, Tag("object"))
    /\ last.v \in {Null, Arr(<<>>)} => last.r = T

\* is('object') was called on an array
C10_Witness ==
  /\ last.op = "call"
  /\ made[last.g] = Made("is", 0, Tag("object"))
  /\ last.v = Arr(<<>>)

\* the latest call was made on a guard built by is(D) for an object shape D
OnShape == last.op = "call" /\ made[last.g].op = "is" /\ made[last.g].t.k = "object"

\* C11 (as claimed): a guard built from an object shape accepts a value only
\* if the value is a non-null, non-array object; is({})(null), is({})('hello')
\* and is({})([]) are all false.
C11_ShapeNeedsNonArrayObject ==
  OnShape =>
    /\ last.r = T => last.v.k = "object"
    /\ made[last.g].t = Obj(<<>>) /\ last.v \in {Null, Str(<<"hello">>), Arr(<<>>)} =>
         last.r = F

\* C11 (amended): a guard built from an object shape accepts a value only if
\* the value is a non-null object, arrays included; is({})(null) and
\* is({})('hello') are false and is({})([]) is true.
C11_ShapeNeedsNonNullObject ==
  OnShape =>
    /\ last.r = T => typeOf(last.v) = "object" /\ last.v # Null
    /\ made[last.g].t = Obj(<<>>) /\ last.v \in {Null, Str(<<"hello">>)} => last.r = F
    /\ made[last.g].t = Obj(<<>>) /\ last.v = Arr(<<>>) => last.r = T

\* is({}) was called on an empty array
C11_Witness == OnShape /\ made[last.g].t = Obj(<<>>) /\ last.v = Arr(<<>>)

\* the own property key of object v, or undefined
prop(v, key) == lookup(v.p, key, 1)

\* C12: for a shape D and an object v, is(D)(v) iff every key declared in D
\* has its sub-definition match v[k], an absent property being undefined;
\* properties of v that D does not declare never change the answer.
C12_WidthSubtyping ==
  OnShape /\ last.v.k = "object" =>
    LET D == made[last.g].t
    IN /\ (last.r = T) <=>
            \A i \in 1..Len(D.p) : matches(D.p[i][2], prop(last.v, D.p[i][1]))
       /\ \A w \in ObjectInputs :
            w.k = "object" /\ (\A i \in 1..Len(D.p) :
                                 prop(w, D.p[i][1]) = prop(last.v, D.p[i][1])) =>
              (accepts(last.g, w) <=> last.r = T)
       /\ D = Obj(<< <<"a", Tag("undefined")>> >>) /\ last.v = Obj(<<>>) => last.r = T
       /\ D = ageShape /\ last.v = john => last.r = F

\* is({a: 'string'}) accepted {a: '', b: 0}, which has an undeclared property
C12_Witness ==
  /\ OnShape
  /\ made[last.g].t = Obj(<< <<"a", Tag("string")>> >>)
  /\ last.v = Obj(<< <<"a", Str(<<>>)>>, <<"b", Num(0)>> >>)
  /\ last.r = T

\* v is a non-null, non-array keyed mapping whose every value matches d
recordOf(d, v) ==
  v.k = "object" /\ \A i \in 1..Len(v.p) : matches(d, v.p[i][2])

\* C13: isRecordOf(d)(v), and the alternative orRecordOf(d) adds, holds iff
\* v is a non-null, non-array keyed mapping and every value stored in v
\* matches d; {} always matches; isRecordOf('string') refuses ['x'].
C13_RecordQuantifier ==
  last.op = "call" =>
    /\ made[last.g].op = "isRecordOf" =>
         ((last.r = T) <=> recordOf(made[last.g].t, last.v))
    /\ made[last.g].op = "orRecordOf" =>
         ((last.r = T) <=>
            accepts(made[last.g].g, last.v) \/ recordOf(made[last.g].t, last.v))
    /\ made[last.g].op = "isRecordOf" /\ last.v = Obj(<<>>) => last.r = T
    /\ made[last.g] = Made("isRecordOf", 0, Tag("string")) /\ last.v = Arr(<<Str(<<"x">>)>>) =>
         last.r = F

\* v is an array whose every element matches d
arrayOf(d, v) ==
  v.k = "array" /\ \A i \in 1..Len(v.e) : matches(d, v.e[i])

\* C14: isArrayOf(d)(v), and the alternative orArrayOf(d) adds, holds iff v
\* is an array and every element of v matches d; [] always matches; a
\* non-array does not match; isArrayOf(is('string').or('number')) accepts
\* ['', 0] and isArrayOf('string').orArrayOf('number') rejects it.
C14_ArrayQuantifier ==
  last.op = "call" =>
    LET m == made[last.g]
    IN /\ m.op = "isArrayOf" => ((last.r = T) <=> arrayOf(m.t, last.v))
       /\ m.op = "orArrayOf" =>
            ((last.r = T) <=> accepts(m.g, last.v) \/ arrayOf(m.t, last.v))
       /\ m.op = "isArrayOf" /\ last.v = Arr(<<>>) => last.r = T
       /\ m.op = "isArrayOf" /\ last.v.k # "array" => last.r = F
       /\ last.v = Arr(<<Str(<<>>), Num(0)>>) =>
            /\ m.op = "isArrayOf" /\ m.t.k = "guard"
                 /\ made[m.t.g] = Made("or", isString, Tag("number")) => last.r = T
            /\ m = Made("orArrayOf", m.g, Tag("number")) /\ m.g > NLoaded
                 /\ made[m.g] = Made("isArrayOf", 0, Tag("string")) => last.r = F

\* isArrayOf(is('string').or('number')) was called on ['', 0] and accepted it
C14_Witness ==
  /\ last.op = "call"
  /\ made[last.g].op = "isArrayOf"
  /\ made[last.g].t.k = "guard"
  /\ made[made[last.g].t.g] = Made("or", isString, Tag("number"))
  /\ last.v = Arr(<<Str(<<>>), Num(0)>>)
  /\ last.r = T

\* the latest call was made on a guard built by is(D) for a tuple D
OnTuple == last.op = "call" /\ made[last.g].op = "is" /\ made[last.g].t.k = "array"

\* C15: is([d0..dn-1])(v) iff v is an array and every di matches v[i], a
\* missing position being undefined; elements of v at index n and beyond
\* are unconstrained; is([])(v) is true exactly for arrays;
\* is(['string','number'])(['high']) is false, is(['undefined'])([]) true.
C15_TupleShape ==
  OnTuple =>
    LET D == made[last.g].t.e
    IN /\ (last.r = T) <=>
            /\ last.v.k = "array"
            /\ \A i \in 1..Len(D) : matches(D[i], Elem(last.v.e, i - 1))
       /\ last.v.k = "array" =>
            \A w \in TupleInputs :
              w.k = "array" /\ (\A i \in 1..Len(D) :
                                  Elem(w.e, i - 1) = Elem(last.v.e, i - 1)) =>
                (accepts(last.g, w) <=> last.r = T)
       /\ D = <<>> => ((last.r = T) <=> last.v.k = "array")
       /\ D = strNumTuple.e /\ last.v = Arr(<<Str(<<"high">>)>>) => last.r = F
       /\ D = <<Tag("undefined")>> /\ last.v = Arr(<<>>) => last.r = T

\* is(['string']) accepted ['', 0], longer than the tuple
C15_Witness ==
  /\ OnTuple
  /\ made[last.g].t = Arr(<<Tag("string")>>)
  /\ last.v = Arr(<<Str(<<>>), Num(0)>>)
  /\ last.r = T

\* v === x of JavaScript for a literal x: NaN equals nothing, itself included
strictEquals(v, x) == v = x /\ x # NaN

isInstance(v, C) ==
  CASE v.k = "object" -> C.c \in {v.c, "Object"}
    [] v.k = "array" -> C.c \in {"Array", "Object"}
    [] v.k \in {"function", "ctor", "guard"} -> C.c \in {"Function", "Object"}
    [] OTHER -> FALSE

\* C17: isInstanceOf(C)(v), and the alternative orInstanceOf adds, holds iff
\* v instanceof C; a primitive never matches (isInstanceOf(String)('') is
\* false, isInstanceOf(String)(new String('')) is true) and a constructor is
\* not its own instance (isInstanceOf(Date)(Date) is false).
C17_InstanceCheck ==
  last.op = "call" =>
    LET m == made[last.g]
    IN /\ m.op = "isInstanceOf" => ((last.r = T) <=> isInstance(last.v, m.t))
       /\ m.op = "orInstanceOf" =>
            ((last.r = T) <=> accepts(m.g, last.v) \/ isInstance(last.v, m.t))
       /\ m.op = "isInstanceOf" /\ typeOf(last.v) \notin {"object", "function"} => last.r = F
       /\ m = Made("isInstanceOf", 0, Ctor("String")) =>
            /\ last.v = Str(<<>>) => last.r = F
            /\ last.v = New("String") => last.r = T
       /\ m = Made("isInstanceOf", 0, Ctor("Date")) /\ last.v = Ctor("Date") => last.r = F

\* isInstanceOf(String) was called on the primitive '' and refused it
C17_Witness ==
  /\ last.op = "call"
  /\ made[last.g] = Made("isInstanceOf", 0, Ctor("String"))
  /\ last.v = Str(<<>>)
  /\ last.r = F

\* the latest call was made on a guard built by is(s) for a string s whose
\* last token is suffix
OnSuffix(suffix) ==
  /\ last.op = "call"
  /\ made[last.g].op = "is"
  /\ made[last.g].t.k = "string"
  /\ Len(made[last.g].t.s) > 1
  /\ made[last.g].t.s[Len(made[last.g].t.s)] = suffix

\* C18: for every basic tag T and value v, is('T[]')(v) = isArrayOf('T')(v):
\* true iff v is an array whose every element passes the basic test for T;
\* is('T[]')([]) is true and is('T[]')(non-array) is false.
C18_ArraySuffix ==
  /\ last.op = "call" /\ made[last.g].op = "isArrayOf" =>
       ((last.r = T) <=> matches(Str(made[last.g].t.s \o <<"[]">>), last.v))
  /\ OnSuffix("[]") =>
    LET name == made[last.g].t.s[1]
    IN /\ (last.r = T) <=> matches(Arr(<<arrayMarker, Tag(name)>>), last.v)
       /\ (last.r = T) <=>
            /\ last.v.k = "array"
            /\ \A i \in 1..Len(last.v.e) : primitiveTest(name, last.v.e[i])
       /\ last.v = Arr(<<>>) => last.r = T
       /\ last.v.k # "array" => last.r = F

\* is('string[]') accepted ['', '']
C18_Witness ==
  /\ OnSuffix("[]")
  /\ made[last.g].t = Str(<<"string", "[]">>)
  /\ last.v = Arr(<<Str(<<>>), Str(<<>>)>>)
  /\ last.r = T

\* C19: for X a basic tag or a basic array tag and every value v,
\* is('X?')(v) = (is('X')(v) or v === undefined); is('string[]?') accepts
\* undefined and every string array and rejects [0].
C19_OptionalSuffix ==
  OnSuffix("?") =>
    LET inner == Str(SubSeq(made[last.g].t.s, 1, Len(made[last.g].t.s) - 1))
    IN /\ (last.r = T) <=> (matches(inner, last.v) \/ last.v = Undefined)
       /\ inner = Str(<<"string", "[]">>) =>
            /\ last.v \in {Undefined, Arr(<<>>), Arr(<<Str(<<>>)>>),
                           Arr(<<Str(<<>>), Str(<<>>)>>)} => last.r = T
            /\ last.v = Arr(<<Num(0)>>) => last.r = F

\* is('string[]?') was called on undefined and accepted it
C19_Witness ==
  /\ OnSuffix("?")
  /\ made[last.g].t = Str(<<"string", "[]", "?">>)
  /\ last.v = Undefined
  /\ last.r = T

\* guard h is is(d).or(t1) when ts = <<t1>>, is(d).or(t1).or(t2) when
\* ts = <<t1, t2>>
IsChain(h, d, ts) ==
  /\ made[h].op = "or"
  /\ made[h].t = ts[Len(ts)]
  /\ IF Len(ts) = 1 THEN made[made[h].g] = Made("is", 0, d)
     ELSE /\ made[made[h].g].op = "or"
          /\ made[made[h].g].t = ts[1]
          /\ made[made[made[h].g].g] = Made("is", 0, d)

\* the latest call, on a guard built by constructor op, agrees with `extra`
\* and with every chain over ts that exists
LikeChain(op, ts, extra) ==
  made[last.g].op = op =>
    /\ (last.r = T) <=> (matches(made[last.g].t, last.v) \/ extra)
    /\ \A h \in 1..Len(guards) :
         IsChain(h, made[last.g].t, ts) =>
           /\ orSet(h) = orSet(last.g)
           /\ accepts(h, last.v) <=> last.r = T

\* C20: isOptional(d)(v) = is(d)(v) or v === undefined; isNullable(d)(v) =
\* is(d)(v) or v === null; isNullish(d)(v) = is(d)(v) or v === null or
\* v === undefined; each behaves exactly like is(d).or('undefined'),
\* is(d).or('null'), is(d).or('null').or('undefined').
C20_OptionalNullable ==
  last.op = "call" =>
    /\ LikeChain("isOptional", <<Tag("undefined")>>, last.v = Undefined)
    /\ LikeChain("isNullable", <<Tag("null")>>, last.v = Null)
    /\ LikeChain("isNullish", <<Tag("null"), Tag("undefined")>>,
                 last.v = Null \/ last.v = Undefined)

\* isNullish('string') and is('string').or('null').or('undefined') both
\* exist, and the first was called on null and accepted it
C20_Witness ==
  \E h \in 1..Len(guards) :
    /\ last.op = "call"
    /\ made[last.g] = Made("isNullish", 0, Tag("string"))
    /\ IsChain(h, Tag("string"), <<Tag("null"), Tag("undefined")>>)
    /\ last.v = Null
    /\ last.r = T

\* C21: parserFor(g)(v) returns v itself (not a copy) when g(v) is true and
\* undefined when g(v) is false; it evaluates g exactly once and changes
\* nothing else.
C21_ParserRoundTrip ==
  /\ [](last.op = "parse" =>
          /\ last.r = T
          /\ last.evals = 1
          /\ accepts(last.g, last.v) => last.out = last.v /\ last.same
          /\ ~accepts(last.g, last.v) => last.out = Undefined)
  /\ [][last'.op = "parse" => UNCHANGED <<arrays, guards, made>>]_vars

\* a parser for a guard that accepts the object {prop1: 'hello'} returned it
C21_Witness ==
  /\ last.op = "parse"
  /\ last.v = hello
  /\ last.out = hello
  /\ last.same

\* C22: requireThat(v, g), with or without a message, raises a TypeError iff
\* g(v) is false; when g(v) is true it returns, raises nothing and changes
\* no state.
C22_Assertion ==
  /\ [](last.op = "require" =>
          /\ (last.r = X) <=> ~accepts(last.g, last.v)
          /\ last.r = X => last.err.kind = "TypeError"
          /\ accepts(last.g, last.v) => last.r = T /\ last.err = NoError)
  /\ [][last'.op = "require" => UNCHANGED <<arrays, guards, made>>]_vars

\* requireThat(5, is('string')) raised a TypeError
C22_Witness ==
  /\ last.op = "require"
  /\ last.g = isString
  /\ last.v = Num(5)
  /\ last.r = X
  /\ last.err.kind = "TypeError"

\* C23: when g(v) is false and the caller gives a message string m, the
\* empty string included, the error carries exactly m.
C23_CustomMessage ==
  last.op = "require" /\ last.r = X /\ last.msg # NoMessage =>
    last.err.message = last.msg.s

\* the text "Type of '<preview>' does not match type guard."
AutoMessage(preview) == <<"Type of '">> \o preview \o <<"' does not match type guard.">>

\* at most 80 characters: a longer text is cut to 77 characters and '...'
Bounded(text) ==
  IF Len(text) > 80 THEN SubSeq(text, 1, 77) \o <<".", ".", ".">> ELSE text

\* the text the message shows for v: its JSON text where there is one, else
\* String(v), else '[unknown value]'
Representation(v) ==
  IF stringify(v).k = "string" THEN stringify(v).s
  ELSE IF toString(v).k = "string" THEN toString(v).s
  ELSE <<"[", "u", "n", "k", "n", "o", "w", "n", " ", "v", "a", "l", "u", "e", "]">>

\* C24: when g(v) is false and no message is given, for every value v
\* (undefined, functions, symbols, bigints and cyclic objects included) the
\* error's message is "Type of '<preview>' does not match type guard.",
\* <preview> being the JSON text of v, else String(v), else
\* '[unknown value]', cut to 77 characters and '...' when longer than 80.
C24_AutoMessage ==
  last.op = "require" /\ last.r = X /\ last.msg = NoMessage =>
    last.err.message = AutoMessage(Bounded(Representation(last.v)))

RECURSIVE inline(_)
\* the definition t with every embedded guard of a single alternative
\* replaced by that alternative
inline(t) ==
  CASE t.k = "guard" ->
         IF Len(alternatives(t.g)) = 1 THEN inline(alternatives(t.g)[1]) ELSE t
    [] t.k = "aref" -> Arr([i \in 1..Len(arrays[t.a]) |-> inline(arrays[t.a][i])])
    [] t.k = "array" -> Arr([i \in 1..Len(t.e) |-> inline(t.e[i])])
    [] t.k = "object" -> [t EXCEPT !.p = [i \in 1..Len(t.p) |-> <<t.p[i][1], inline(t.p[i][2])>>]]
    [] OTHER -> t

\* C25: is(g)(v) = g(v); a guard embedded in a definition (object member,
\* tuple slot, array or record element, argument of or/and) contributes
\* exactly its own acceptance set: the guard answers as with the embedded
\* guard's definition written in its place, g.or(h) is the union of g and h,
\* and is(is('string')).or(is('number')) accepts exactly strings and numbers.
C25_Delegation ==
  last.op = "call" =>
    LET h == last.g
        v == last.v
        m == made[last.g]
    IN /\ (last.r = T) <=>
            someFrom([i \in 1..Len(alternatives(h)) |-> inline(alternatives(h)[i])],
                     1, v, MaxStack) = T
       /\ m.op = "is" /\ m.t.k = "guard" => ((last.r = T) <=> accepts(m.t.g, v))
       /\ m.op = "or" /\ m.t.k = "guard" =>
            ((last.r = T) <=> (accepts(m.g, v) \/ accepts(m.t.g, v)))
       /\ m.op \in {"isArrayOf", "isRecordOf"} /\ m.t.k = "guard" /\ v.k = "array" =>
            ((last.r = T) <=> \A i \in 1..Len(v.e) : accepts(m.t.g, v.e[i]))
       /\ m.op = "or" /\ m.t = GuardRef(isNumber)
            /\ made[m.g] = Made("is", 0, GuardRef(isString)) =>
            ((last.r = T) <=> v.k \in {"string", "number"})

\* is(is('string')).or(is('number')) accepted 0
C25_Witness ==
  /\ last.op = "call"
  /\ made[last.g].op = "or"
  /\ made[last.g].t = GuardRef(isNumber)
  /\ made[made[last.g].g] = Made("is", 0, GuardRef(isString))
  /\ last.v = Num(0)
  /\ last.r = T

\* C26: every guard's OR-set is non-empty; a combinator of the or family
\* yields the receiver's OR-set, same elements in the same order, with
\* exactly one element appended; and yields an OR-set as long as the
\* receiver's and identical to it in every slot but the last.
C26_OrSetShape ==
  /\ [](\A h \in 1..Len(guards) : Len(orSet(h)) >= 1)
  /\ [][\A g \in 1..Len(guards), h \in {Len(guards) + 1} :
          Len(guards') = h /\ made'[h].g = g =>
               LET new == orSet(h)'
                   old == orSet(g)
               IN /\ made'[h].op \in OrFamily =>
                       /\ Len(new) = Len(old) + 1
                       /\ SubSeq(new, 1, Len(old)) = old
                  /\ made'[h].op = "and" =>
                       /\ Len(new) = Len(old)
                       /\ \A i \in 1..(Len(old) - 1) : new[i] = old[i]
                       /\ new[Len(new)] # old[Len(old)]]_vars

\* and was applied to a guard of several alternatives, and a combinator of
\* the or family to a guard that a constructor other than is returned
C26_Witness ==
  \E h \in 1..Len(guards), h2 \in 1..Len(guards) :
    /\ made[h].op = "and"
    /\ Len(orSet(made[h].g)) >= 2
    /\ Len(orSet(h)) = Len(orSet(made[h].g))
    /\ made[h2].op \in OrFamily \ {"or"}
    /\ Len(orSet(h2)) = Len(orSet(made[h2].g)) + 1

\* the last slot of guard g's OR-set as the heap holds it
lastSlot(g) == alternatives(g)[Len(alternatives(g))]

\* slot is an intersection list
isAndList(slot) == isArray(slot) /\ Elem(ArrElems(slot), 0) = andMarker

\* C27: and(d) on a receiver whose last term is an intersection list yields
\* a new list with d appended (flat, a fresh copy); otherwise a new
\* intersection of the last term and d.  g.and(b).and(c) accepts v iff an
\* earlier alternative of g matches v or the last term of g, b and c all
\* match v; the intermediate guard g.and(b) and a sibling g.and(b).and(c')
\* keep their own lists.
C27_ChainedAnd ==
  /\ [](\A h \in 1..Len(guards) :
          made[h].op = "and" =>
            LET g == made[h].g
            IN /\ lastSlot(h).k = "aref"
               /\ \A h2 \in 1..Len(guards) : h2 # h => lastSlot(h2) # lastSlot(h)
               /\ ArrElems(lastSlot(h)) =
                    IF isAndList(lastSlot(g))
                    THEN ArrElems(lastSlot(g)) \o <<made[h].t>>
                    ELSE <<andMarker, lastSlot(g), made[h].t>>
               /\ made[g].op = "and" =>
                    /\ Len(ArrElems(lastSlot(h))) = Len(ArrElems(lastSlot(g))) + 1
                    /\ \A i \in 2..Len(ArrElems(lastSlot(h))) :
                         ~isAndList(ArrElems(lastSlot(h))[i]))
  /\ [](last.op = "call" /\ made[last.g].op = "and" /\ made[made[last.g].g].op = "and"
          /\ made[made[made[last.g].g].g].op # "and" =>
          LET c == made[last.g].t
              b == made[made[last.g].g].t
              ts == alternatives(made[made[last.g].g].g)
          IN (last.r = T) <=>
               \/ \E i \in 1..(Len(ts) - 1) : matches(ts[i], last.v)
               \/ /\ matches(ts[Len(ts)], last.v)
                  /\ matches(b, last.v)
                  /\ matches(c, last.v))
  /\ [][\A h \in 1..Len(guards) :
          /\ alternatives(h)' = alternatives(h)
          /\ orSet(h)' = orSet(h)]_vars

\* g.and(b).and(c) and its sibling g.and(b).and(c') both exist, with
\* different lists, and the one called accepted a value the other rejects
C27_Witness ==
  \E h2 \in 1..Len(guards) :
    /\ last.op = "call"
    /\ last.r = T
    /\ h2 # last.g
    /\ made[last.g].op = "and"
    /\ made[h2].op = "and"
    /\ made[h2].g = made[last.g].g
    /\ made[made[last.g].g].op = "and"
    /\ made[h2].t # made[last.g].t
    /\ ~accepts(h2, last.v)

\* what the evaluation of alternative i of guard g yields for v before
\* mainGuard's catch: "true", "false" or "throw"
outcome(g, i, v) == mainGuardTry(alternatives(g)[i], v, MaxStack - 1)

\* C28: an alternative whose evaluation raises counts as a non-match and the
\* other alternatives are still tried: the guard answers true iff some
\* alternative yields true, whichever alternatives raise; so
\* is(throwingGuard).or('string')('x') and
\* isInstanceOf(notAConstructor).or('number')(0) are true.
C28_FaultIsolation ==
  last.op = "call" =>
    /\ last.r \in {T, F}
    /\ (last.r = T) <=>
         \E i \in 1..Len(alternatives(last.g)) : outcome(last.g, i, last.v) = T
    /\ made[last.g].op = "or" /\ made[made[last.g].g].op \in {"is", "isInstanceOf", "isRecordOf"}
         /\ outcome(last.g, 1, last.v) = X =>
         ((last.r = T) <=> matches(made[last.g].t, last.v))
    /\ made[last.g] = Made("or", made[last.g].g, Tag("string"))
         /\ made[made[last.g].g] = Made("is", 0, Fn("throws"))
         /\ last.v = Str(<<"x">>) => last.r = T
    /\ made[last.g] = Made("or", made[last.g].g, Tag("number"))
         /\ made[made[last.g].g].op = "isInstanceOf"
         /\ made[made[last.g].g].t \in BadCtors
         /\ last.v = Num(0) => last.r = T

\* a guard whose first alternative raised accepted the value by its second
C28_Witness ==
  /\ last.op = "call"
  /\ last.r = T
  /\ Len(alternatives(last.g)) = 2
  /\ outcome(last.g, 1, last.v) = X
  /\ outcome(last.g, 2, last.v) = T

\* the greatest number of a set of naturals, 0 for the empty set
Greatest(S) == IF S = {} THEN 0 ELSE CHOOSE x \in S : \A y \in S : y <= x

RECURSIVE suffixes(_)
\* the number of '[]' and '?' suffixes at the end of a tag string
suffixes(s) ==
  IF endsWith(s, "[]") \/ endsWith(s, "?") THEN 1 + suffixes(dropLast(s)) ELSE 0

RECURSIVE nesting(_)
\* the nesting depth of definition t: a tag is 1, each suffix, marker list,
\* tuple, shape or embedded guard adds one level around what it holds
nesting(t) ==
  1 + (CASE t.k = "string" -> suffixes(t.s)
         [] t.k = "guard" ->
              Greatest({nesting(alternatives(t.g)[i]) : i \in 1..Len(alternatives(t.g))})
         [] isArray(t) ->
              IF isLiteralTypeDef(t) \/ isInstanceTypeDef(t) THEN 0
              ELSE IF isArrayTypeDef(t) \/ isRecordTypeDef(t) \/ isAndTypeDef(t)
                THEN Greatest({nesting(ArrElems(t)[i]) : i \in 2..Len(ArrElems(t))})
              ELSE Greatest({nesting(ArrElems(t)[i]) : i \in 1..Len(ArrElems(t))})
         [] t.k = "object" -> Greatest({nesting(t.p[i][2]) : i \in 1..Len(t.p)})
         [] OTHER -> 0)

\* the nesting depth of the definitions guard g closes over
nestingOf(g) == Greatest({nesting(alternatives(g)[i]) : i \in 1..Len(alternatives(g))})

\* C29: a guard call ends with a boolean, and the evaluator's recursion depth
\* is at most the nesting depth of the guard's definition (the definitions of
\* embedded guards counted), whatever the size or nesting depth of the value:
\* a stack of that many frames is enough for the call to give its answer.
C29_DepthBounded ==
  last.op = "call" =>
    /\ last.r \in {T, F}
    /\ framesSome(alternatives(last.g), 1, last.v) <= nestingOf(last.g)
    /\ nestingOf(last.g) < MaxStack
    /\ guardCall(last.g, last.v, nestingOf(last.g)) = last.r
    /\ guardCall(last.g, last.v, framesSome(alternatives(last.g), 1, last.v)) = last.r

\* a guard nested three deep was called on a value nested deeper than that,
\* and the evaluation went as deep as the definition
C29_Witness ==
  /\ last.op = "call"
  /\ last.v \in {deepArray, deepObject}
  /\ nestingOf(last.g) >= 3
  /\ framesSome(alternatives(last.g), 1, last.v) = nestingOf(last.g)

\* C30: a combinator of the or family only widens and and only narrows:
\* g(v) implies g.or(d)(v), g.orArrayOf(d)(v), g.orRecordOf(d)(v),
\* g.orLiterally(...)(v) and g.orInstanceOf(C)(v), and g.and(d)(v) implies
\* g(v), after any sequence of combinator calls.
C30_Monotone ==
  last.op = "call" /\ made[last.g].g # 0 =>
    /\ made[last.g].op \in OrFamily /\ accepts(made[last.g].g, last.v) => last.r = T
    /\ made[last.g].op = "and" /\ last.r = T => accepts(made[last.g].g, last.v)

\* g.and(d) rejected a value that g accepts, g being itself the result of
\* or on a guard that rejects the value
C30_Witness ==
  /\ last.op = "call"
  /\ last.r = F
  /\ made[last.g].op = "and"
  /\ accepts(made[last.g].g, last.v)
  /\ made[made[last.g].g].op \in OrFamily
  /\ ~accepts(made[made[last.g].g].g, last.v)

====
